---------------------------- MODULE Spec2Model ----------------------------
(***************************************************************************)
(* Halagel Helpdesk: the two browser front-ends of the repository.         *)
(*                                                                         *)
(*   src/app.js            the React implementation (ConfigManager,        *)
(*                         APIManager, App and its views)                  *)
(*   src/unnamed/part_000  the plain-DOM implementation (CONFIG, apiCall,  *)
(*                         render* functions)                              *)
(*                                                                         *)
(* A page loads one of the two scripts; impl says which.  Text values are  *)
(* sequences: a form field or a password is a sequence of characters, a    *)
(* message or a URL is a sequence of words, so that trim(), RegExp.test()  *)
(* and String.includes() are computed rather than assumed.                 *)
(*                                                                         *)
(* User events are not disabled while a request is in flight: the loading  *)
(* overlay of app.js is a plain element drawn above the page, keyboard     *)
(* focus stays on the controls behind it.  Only the header refresh button  *)
(* carries disabled: loading.                                              *)
(*                                                                         *)
(* Spec follows a page of either implementation.  The error log of app.js  *)
(* (localStorage[ERROR_LOG_KEY]) is written by ErrorLogger and read by no  *)
(* code of the application; SpecLog follows ErrorLogger with its log, and  *)
(* SpecConfig follows ConfigManager called directly, over more records    *)
(* than the settings form of a page run produces.                          *)
(***************************************************************************)
EXTENDS Integers, Sequences, FiniteSets, TLC

VARIABLES
    impl,              \* "app" (src/app.js) or "part000" (src/unnamed/part_000)
    \* ---- src/app.js
    view,              \* useState('home')
    tickets,           \* useState([])
    loading,           \* useState(false)
    error,             \* useState(null)
    success,           \* useState(null)
    isAdmin,           \* useState(false)
    formData,          \* CreateTicketView: useState({title: '', ...})
    validationErrors,  \* CreateTicketView: useState({})
    filter,            \* AdminView: useState('all')
    configItem,        \* localStorage[CONFIG_KEY]
    inflight,          \* fetch() calls of APIManager not yet settled, oldest first
    errorLog,          \* JSON.parse(localStorage[ERROR_LOG_KEY] || '[]')
    \* ---- src/unnamed/part_000
    CONFIG,            \* let CONFIG = {...}
    p0ConfigItem,      \* localStorage['halagel_config']
    adminItem,         \* localStorage['halagel_admin'] is present
    screen,            \* what #main-content shows
    cards,             \* the ticket cards of the displayed admin list
    p0Inflight,        \* fetch() calls of apiCall not yet settled, oldest first
    timers,            \* pending setTimeout(() => refreshTickets(), 1000)
    \* ---- history
    settingsEntry,     \* while the view is 'settings': isAdmin when it was entered
    logged,            \* the ErrorLogger.log calls since the log was last cleared
    lastEvent          \* the handler that ran last and what it did

appVars == <<view, tickets, loading, error, success, isAdmin, formData,
             validationErrors, filter, configItem, inflight>>
p0Vars  == <<CONFIG, p0ConfigItem, adminItem, screen, cards, p0Inflight, timers>>
logVars == <<errorLog, logged>>
vars    == <<impl, appVars, p0Vars, logVars, settingsEntry, lastEvent>>

---------------------------------------------------------------------------
(* Bounds *)

MaxInFlight == 2     \* requests in flight at once
MaxEmailLen == 5     \* characters of an email typed into the form
MaxTimers == 1       \* refresh timers pending at once
MaxClock == 1        \* latest clock reading at which a draft is submitted
MaxElapsed == 1      \* clock ticks between a submission and createTicket's new Date()
MaxLogCalls == 52    \* ErrorLogger.log calls between two clears
MaxWriteFailures == 1   \* of them, calls whose localStorage.setItem throws
MaxConfigErrors == 2    \* errors ConfigManager logs between two clears
MaxPasswordLen == 7  \* characters of a password given to ConfigManager.validate
MaxUrlWords == 2     \* words of a URL given to ConfigManager.validate

---------------------------------------------------------------------------
(* Text *)

EmptyStr == <<>>
NoMsg == <<>>                       \* null: no message
Undefined == "undefined"

RECURSIVE SeqsUpTo(_, _)
SeqsUpTo(S, n) ==
    IF n = 0 THEN {<<>>}
    ELSE LET shorter == SeqsUpTo(S, n - 1)
         IN  shorter \cup {Append(s, c) : s \in shorter, c \in S}

IsSpace(c) == c = " "

\* String.prototype.trim: strips whitespace from both ends
RECURSIVE TrimLeft(_)
TrimLeft(s) == IF s # <<>> /\ IsSpace(Head(s)) THEN TrimLeft(Tail(s)) ELSE s
RECURSIVE TrimRight(_)
TrimRight(s) ==
    IF s # <<>> /\ IsSpace(s[Len(s)]) THEN TrimRight(SubSeq(s, 1, Len(s) - 1)) ELSE s
Trim(s) == TrimRight(TrimLeft(s))

\* String.prototype.includes, on sequences
Includes(s, pat) ==
    \E i \in 1..(Len(s) - Len(pat) + 1) : SubSeq(s, i, i + Len(pat) - 1) = pat

\* /\S+@\S+\.\S+/.test(s): some substring is a run of non-whitespace, '@',
\* a run of non-whitespace, '.', a run of non-whitespace
EmailRegexTest(s) ==
    \E p \in 2..Len(s) : \E q \in (p + 2)..(Len(s) - 1) :
        /\ s[p] = "@"
        /\ ~IsSpace(s[p - 1])
        /\ s[q] = "."
        /\ \A k \in (p + 1)..(q - 1) : ~IsSpace(s[k])
        /\ ~IsSpace(s[q + 1])

---------------------------------------------------------------------------
(* Messages of src/app.js *)

FetchNotConfigured ==
    <<"Web", "App", "URL", "not", "configured.", "Please", "configure", "in", "Settings.">>
NotConfigured == <<"Web", "App", "URL", "not", "configured">>
CannotConnect ==
    <<"Cannot", "connect", "to", "Google", "Sheets.", "Check", "your", "internet",
      "connection", "and", "Web", "App", "URL.">>
FailedToFetch == <<"Failed", "to", "fetch">>
TicketsLoaded == <<"Tickets", "loaded", "successfully!">>
TicketCreated == <<"Ticket", "created", "successfully!">>
StatusUpdated == <<"Ticket", "status", "updated!">>
TicketDeleted == <<"Ticket", "deleted", "successfully!">>
LoginOk == <<"Admin", "login", "successful!">>
InvalidPassword == <<"Invalid", "admin", "password!">>
LoggedOut == <<"Logged", "out", "successfully!">>
ConfigSaved == <<"Configuration", "saved", "successfully!">>
SaveFailed == <<"Failed", "to", "save", "configuration.">>
PasswordTooShort == <<"Admin", "password", "must", "be", "at", "least", "6", "characters">>
BadSheetUrl == <<"Invalid", "Google", "Sheet", "URL", "format">>
BadWebAppUrl == <<"Invalid", "Web", "App", "URL", "format">>
TitleRequired == <<"Title", "is", "required">>
DescriptionRequired == <<"Description", "is", "required">>
EmailRequired == <<"Email", "is", "required">>
InvalidEmail == <<"Invalid", "email", "format">>

\* `HTTP ${response.status}: ${response.statusText}`
HttpError == <<"HTTP", "500:", "Internal", "Server", "Error">>

\* data.error || '<fallback>'
Fallback(kind) ==
    CASE kind = "load"   -> <<"Failed", "to", "fetch", "tickets">>
      [] kind = "create" -> <<"Failed", "to", "create", "ticket">>
      [] kind = "update" -> <<"Failed", "to", "update", "ticket">>
      [] kind = "delete" -> <<"Failed", "to", "delete", "ticket">>

ApiName(kind) ==
    CASE kind = "load"   -> "fetchTickets"
      [] kind = "create" -> "createTicket"
      [] kind = "update" -> "updateTicket"
      [] kind = "delete" -> "deleteTicket"

---------------------------------------------------------------------------
(* The environment: what the user types and what the endpoint answers *)

Admin123 == <<"a", "d", "m", "i", "n", "1", "2", "3">>
Secret1 == <<"s", "e", "c", "r", "e", "t", "1">>
ShortPassword == <<"a", "b", "c">>

ScriptUrl == <<"https://", "script.google.com", "/macros/s/A/exec">>
OldScriptUrl == <<"https://", "script.google.com", "/macros/s/B/exec">>
OtherUrl == <<"https://", "example.com", "/exec">>

PasswordInputs == {Admin123, Secret1}

ConfigInputs ==
    { [adminPassword |-> Secret1, sheetUrl |-> EmptyStr, webAppUrl |-> ScriptUrl],
      [adminPassword |-> Admin123, sheetUrl |-> EmptyStr, webAppUrl |-> EmptyStr],
      [adminPassword |-> ShortPassword, sheetUrl |-> OtherUrl, webAppUrl |-> OtherUrl] }

\* Tickets as the endpoint returns them: capitalized keys or lowercase keys
TicketCap == [ID |-> "1", Status |-> "pending"]
TicketLow == [id |-> "2", status |-> "done"]
TicketLists == {<<>>, <<TicketCap, TicketLow>>}
Statuses == {"done"}
\* the filter buttons pressed
FilterInputs == {"all", "done"}

\* error strings of {success: false, error: X}
EndpointErrors == { <<"Sheet", "not", "found">> }

\* message of the TypeError a rejected fetch() carries (Chromium)
TransportMessages == { <<"Failed", "to", "fetch">> }

\* How a fetch() settles.
\*   success  response.ok, body {success: true, tickets}
\*   failure  response.ok, body {success: false, error} (error NoMsg: none given)
\*   http     !response.ok
\*   reject   fetch() rejects
Responses ==
    {[type |-> "success", tickets |-> l, error |-> NoMsg] : l \in TicketLists}
    \cup {[type |-> "failure", tickets |-> <<>>, error |-> x] :
              x \in EndpointErrors \cup {NoMsg}}
    \cup {[type |-> "http", tickets |-> <<>>, error |-> NoMsg]}
    \cup {[type |-> "reject", tickets |-> <<>>, error |-> m] : m \in TransportMessages}

FormChars == {"a", " ", "@", "."}
EmptyForm == [title |-> EmptyStr, description |-> EmptyStr, email |-> EmptyStr,
              priority |-> "medium", status |-> "pending"]
ValidEmail == <<"a", "@", "a", ".", "a">>
\* what the user types in a run of the whole application
TypedForms == { [EmptyForm EXCEPT !.title = <<"a">>, !.description = <<"a">>,
                                  !.email = ValidEmail] }
\* what the form is checked against
AllTexts == {EmptyStr, <<" ">>, <<"a">>, <<" ", "a", " ">>}
AllEmails == SeqsUpTo(FormChars, MaxEmailLen)

---------------------------------------------------------------------------
(* ErrorLogger and ConfigManager (src/app.js) *)

\* a property that is absent, or whose value is undefined
NoValue == <<Undefined>>
Prop(obj, key) == IF key \in DOMAIN obj THEN obj[key] ELSE NoValue

\* if (logs.length > 50) logs.shift()
LogCap == 50

\* the errorLog object of ErrorLogger.log; stamp is what new Date() reads
LogEntry(stamp, context, message) ==
    [timestamp |-> stamp, context |-> context, message |-> message]

\* faulty variant: the newest entry is the one dropped
ErrorLogger_log_Pop(log, entry, stored) ==
    LET logs == Append(log, entry)
        kept == IF Len(logs) > LogCap THEN SubSeq(logs, 1, Len(logs) - 1) ELSE logs
    IN  IF stored THEN kept ELSE log

\* ErrorLogger.log(error, context): the persisted log after the call.  When
\* localStorage.setItem throws (~stored) the catch block leaves it as it was.
ErrorLogger_log(log, entry, stored) ==
    LET logs == Append(log, entry)
        kept == IF Len(logs) > LogCap THEN Tail(logs) ELSE logs
    IN  IF stored THEN kept ELSE log

\* ErrorLogger.clear(): localStorage.removeItem(ERROR_LOG_KEY)
ErrorLogger_clear(log) == <<>>

\* localStorage.getItem(CONFIG_KEY): nothing stored, a JSON text, or a text
\* that JSON.parse rejects
NoItem == [kind |-> "none"]
CorruptItem == [kind |-> "corrupt"]

\* faulty variant: a missing sheetUrl is stored as ''
Stringify_Merge(config) ==
    [kind |-> "json",
     value |-> [k \in {j \in DOMAIN config : config[j] # NoValue} \cup {"sheetUrl"} |->
                   IF k \in DOMAIN config /\ config[k] # NoValue THEN config[k]
                   ELSE EmptyStr]]

\* JSON.stringify(config), as stored: a property whose value is undefined is
\* left out
Stringify(config) ==
    [kind |-> "json",
     value |-> [k \in {j \in DOMAIN config : config[j] # NoValue} |-> config[k]]]

\* JSON.parse(text)
JSON_parse(item) ==
    IF item.kind = "json" THEN [threw |-> FALSE, value |-> item.value]
    ELSE [threw |-> TRUE, value |-> NoValue]

getDefaults == [adminPassword |-> Admin123, sheetUrl |-> EmptyStr, webAppUrl |-> EmptyStr]

\* faulty variant: no catch block
TryGet_NoCatch(item) ==
    IF item.kind = "none"
    THEN [value |-> getDefaults, threw |-> FALSE, caught |-> FALSE]
    ELSE LET parsed == JSON_parse(item)
         IN  [value |-> parsed.value, threw |-> parsed.threw, caught |-> FALSE]

\* The try and catch blocks of ConfigManager.get(): what it returns, whether
\* it throws, and whether it caught (and logs) an error
TryGet(item) ==
    IF item.kind = "none"
    THEN [value |-> getDefaults, threw |-> FALSE, caught |-> FALSE]
    ELSE LET parsed == JSON_parse(item)
         IN  IF parsed.threw
             THEN [value |-> getDefaults, threw |-> FALSE, caught |-> TRUE]
             ELSE [value |-> parsed.value, threw |-> FALSE, caught |-> FALSE]

\* ConfigManager.get(): the parsed item, or the defaults when there is none
\* or JSON.parse throws
ConfigManager_get(item) == TryGet(item).value

\* faulty variant: a failed write is reported as done
ConfigManager_set_AlwaysTrue(item, config, stored) ==
    [result |-> TRUE, item |-> IF stored THEN Stringify(config) ELSE item,
     threw |-> FALSE, caught |-> ~stored]

\* ConfigManager.set(config): localStorage.setItem throws when ~stored, the
\* catch block logs the error and returns false
ConfigManager_set(item, config, stored) ==
    IF stored
    THEN [result |-> TRUE, item |-> Stringify(config), threw |-> FALSE, caught |-> FALSE]
    ELSE [result |-> FALSE, item |-> item, threw |-> FALSE, caught |-> TRUE]

\* faulty variant: the password is only required to be present
ConfigManager_validate_AnyLength(config) ==
    (IF Prop(config, "adminPassword") \in {NoValue, EmptyStr}
        THEN <<PasswordTooShort>> ELSE <<>>)
    \o (IF Prop(config, "sheetUrl") \notin {NoValue, EmptyStr}
           /\ ~Includes(config.sheetUrl, <<"docs.google.com/spreadsheets">>)
        THEN <<BadSheetUrl>> ELSE <<>>)
    \o (IF Prop(config, "webAppUrl") \notin {NoValue, EmptyStr}
           /\ ~Includes(config.webAppUrl, <<"script.google.com">>)
        THEN <<BadWebAppUrl>> ELSE <<>>)

\* ConfigManager.validate(config): the list of errors
ConfigManager_validate(config) ==
    (IF Prop(config, "adminPassword") \in {NoValue, EmptyStr}
           \/ Len(config.adminPassword) < 6
        THEN <<PasswordTooShort>> ELSE <<>>)
    \o (IF Prop(config, "sheetUrl") \notin {NoValue, EmptyStr}
           /\ ~Includes(config.sheetUrl, <<"docs.google.com/spreadsheets">>)
        THEN <<BadSheetUrl>> ELSE <<>>)
    \o (IF Prop(config, "webAppUrl") \notin {NoValue, EmptyStr}
           /\ ~Includes(config.webAppUrl, <<"script.google.com">>)
        THEN <<BadWebAppUrl>> ELSE <<>>)

\* errors.join('. ')
RECURSIVE Join(_)
Join(errors) ==
    IF errors = <<>> THEN <<>>
    ELSE IF Len(errors) = 1 THEN errors[1]
    ELSE errors[1] \o <<".">> \o Join(Tail(errors))

---------------------------------------------------------------------------
(* APIManager (src/app.js) *)

\* A fetch() in flight, as the awaiting handler holds it: the method that
\* awaits it and, for handleCreateTicket, the isAdmin of its closure.
Task(kind, admin) == [kind |-> kind, admin |-> admin, overtaken |-> FALSE]

\* The request fetch() sends: the URL, the method, and the body's fields
Request(kind, url, id, status) ==
    [url |-> url, method |-> IF kind = "load" THEN "GET" ELSE "POST",
     action |-> kind, id |-> id, status |-> status]

\* What an APIManager method ends with once its fetch() settled as resp:
\* the try block's throw, then the catch block.  Only fetchTickets rewrites
\* a message that includes 'Failed to fetch'.
ApiResult(kind, resp) ==
    LET thrown ==
            CASE resp.type = "reject"  -> resp.error
              [] resp.type = "http"    -> HttpError
              [] resp.type = "failure" ->
                    IF resp.error # NoMsg THEN resp.error ELSE Fallback(kind)
              [] OTHER -> NoMsg
    IN  IF resp.type = "success"
        THEN [ok |-> TRUE, message |-> NoMsg]
        ELSE [ok |-> FALSE,
              message |-> IF kind = "load" /\ Includes(thrown, FailedToFetch)
                          THEN CannotConnect ELSE thrown]

---------------------------------------------------------------------------
(* App (src/app.js): a handler maps the state before it to the state after  *)
(* it.  The record carries the React state, the requests in flight, and    *)
(* what the handler did: the password it was given, the APIManager methods *)
(* it called, the requests it sent, the gateway call whose failure it      *)
(* caught and the message; at is the clock reading when the event the      *)
(* handler serves occurred and date what new Date() reads during it.       *)

Current ==
    [view |-> view, tickets |-> tickets, loading |-> loading, error |-> error,
     success |-> success, isAdmin |-> isAdmin, formData |-> formData,
     validationErrors |-> validationErrors, filter |-> filter, inflight |-> inflight,
     input |-> <<>>, calls |-> <<>>, reqs |-> <<>>, failed |-> "none", msg |-> NoMsg,
     at |-> 0, date |-> 0]

\* faulty variant: the URL is not read again, it is the one of an earlier call
ApiCall_Cached(s, kind, admin, id, status, notConfigured) ==
    LET config == [getDefaults EXCEPT !.webAppUrl = OldScriptUrl]
        s1 == [s EXCEPT !.calls = Append(@, ApiName(kind))]
    IN  IF config.webAppUrl = EmptyStr
        THEN [s1 EXCEPT !.failed = ApiName(kind), !.msg = notConfigured]
        ELSE [s1 EXCEPT !.inflight = Append(@, Task(kind, admin)),
                        !.reqs = Append(@, Request(kind, config.webAppUrl, id, status))]

\* An APIManager method up to its fetch(): the configuration is read on every
\* call; an empty webAppUrl throws before the try block.
ApiCall(s, kind, admin, id, status, notConfigured) ==
    LET config == ConfigManager_get(configItem)
        s1 == [s EXCEPT !.calls = Append(@, ApiName(kind))]
    IN  IF config.webAppUrl = EmptyStr
        THEN [s1 EXCEPT !.failed = ApiName(kind), !.msg = notConfigured]
        ELSE [s1 EXCEPT !.inflight = Append(@, Task(kind, admin)),
                        !.reqs = Append(@, Request(kind, config.webAppUrl, id, status))]

\* faulty variant: the catch block drops the message
CatchFinally_Swallow(s) == [s EXCEPT !.loading = FALSE]

\* catch (err) { setError(err.message) } finally { setLoading(false) }
CatchFinally(s) == [s EXCEPT !.error = s.msg, !.loading = FALSE]

loadTickets(s) ==
    LET s1 == [s EXCEPT !.loading = TRUE, !.error = NoMsg]
        s2 == ApiCall(s1, "load", FALSE, Undefined, "", FetchNotConfigured)
    IN  IF s2.failed # "none" THEN CatchFinally(s2) ELSE s2

\* the body of createTicket's POST: {action: 'create', ticket: {...ticket, createdAt}}
CreateRequest(url, ticket, createdAt) ==
    Request("create", url, Undefined, ticket.status)
    @@ [ticket |-> [k \in DOMAIN ticket \cup {"createdAt"} |->
                       IF k = "createdAt" THEN createdAt ELSE ticket[k]]]

\* faulty variant: the ticket is sent as typed, without createdAt
handleCreateTicket_NoStamp(s, ticketData) ==
    LET s1 == [s EXCEPT !.loading = TRUE, !.error = NoMsg]
        s2 == ApiCall(s1, "create", s.isAdmin, Undefined, ticketData.status, NotConfigured)
    IN  IF s2.failed # "none" THEN CatchFinally(s2)
        ELSE [s2 EXCEPT !.reqs = Append(s1.reqs,
                    Request("create", s2.reqs[Len(s2.reqs)].url, Undefined, ticketData.status)
                    @@ [ticket |-> ticketData])]

handleCreateTicket(s, ticketData) ==
    LET s1 == [s EXCEPT !.loading = TRUE, !.error = NoMsg]
        s2 == ApiCall(s1, "create", s.isAdmin, Undefined, ticketData.status, NotConfigured)
    IN  IF s2.failed # "none" THEN CatchFinally(s2)
        ELSE [s2 EXCEPT !.reqs = Append(s1.reqs,
                    CreateRequest(s2.reqs[Len(s2.reqs)].url, ticketData, s.date))]

\* faulty variant: the reload does not wait for the acknowledgement
handleUpdateStatus_EagerReload(s, id, status) ==
    LET s1 == [s EXCEPT !.loading = TRUE, !.error = NoMsg]
        s2 == ApiCall(s1, "update", FALSE, id, status, NotConfigured)
    IN  IF s2.failed # "none" THEN CatchFinally(s2) ELSE loadTickets(s2)

handleUpdateStatus(s, id, status) ==
    LET s1 == [s EXCEPT !.loading = TRUE, !.error = NoMsg]
        s2 == ApiCall(s1, "update", FALSE, id, status, NotConfigured)
    IN  IF s2.failed # "none" THEN CatchFinally(s2) ELSE s2

\* faulty variant: the answer to confirm() is ignored
handleDeleteTicket_NoConfirm(s, id, confirmed) ==
    LET s1 == [s EXCEPT !.loading = TRUE, !.error = NoMsg]
        s2 == ApiCall(s1, "delete", FALSE, id, "", NotConfigured)
    IN  IF s2.failed # "none" THEN CatchFinally(s2) ELSE s2

handleDeleteTicket(s, id, confirmed) ==
    IF ~confirmed THEN s
    ELSE LET s1 == [s EXCEPT !.loading = TRUE, !.error = NoMsg]
             s2 == ApiCall(s1, "delete", FALSE, id, "", NotConfigured)
         IN  IF s2.failed # "none" THEN CatchFinally(s2) ELSE s2

\* faulty variant: the password is compared with the default, not the configured one
handleAdminLogin_DefaultPassword(s, password) ==
    LET s1 == [s EXCEPT !.input = password]
    IN  IF password = getDefaults.adminPassword
        THEN loadTickets([s1 EXCEPT !.isAdmin = TRUE, !.view = "admin", !.success = LoginOk])
        ELSE [s1 EXCEPT !.error = InvalidPassword]

handleAdminLogin(s, password) ==
    LET config == ConfigManager_get(configItem)
        s1 == [s EXCEPT !.input = password]
    IN  IF password = config.adminPassword
        THEN loadTickets([s1 EXCEPT !.isAdmin = TRUE, !.view = "admin", !.success = LoginOk])
        ELSE [s1 EXCEPT !.error = InvalidPassword]

\* faulty variant: the view is not reset
handleLogout_KeepView(s) ==
    [s EXCEPT !.isAdmin = FALSE, !.tickets = <<>>, !.success = LoggedOut]

\* faulty variant: the ticket list is not emptied
handleLogout_KeepTickets(s) ==
    [s EXCEPT !.isAdmin = FALSE, !.view = "home", !.success = LoggedOut]

handleLogout(s) ==
    [s EXCEPT !.isAdmin = FALSE, !.view = "home", !.tickets = <<>>, !.success = LoggedOut]

\* faulty variant: title and description are not trimmed
validate_NoTrim(data) ==
    LET bad == (IF data.title = EmptyStr THEN {"title"} ELSE {})
               \cup (IF data.description = EmptyStr THEN {"description"} ELSE {})
               \cup (IF Trim(data.email) = EmptyStr \/ ~EmailRegexTest(data.email)
                     THEN {"email"} ELSE {})
    IN  [f \in bad |->
            CASE f = "title" -> TitleRequired
              [] f = "description" -> DescriptionRequired
              [] f = "email" ->
                    IF Trim(data.email) = EmptyStr THEN EmailRequired ELSE InvalidEmail]

\* faulty variant: the checks stop at the first violated field
validate_FirstOnly(data) ==
    IF Trim(data.title) = EmptyStr THEN [f \in {"title"} |-> TitleRequired]
    ELSE IF Trim(data.description) = EmptyStr
    THEN [f \in {"description"} |-> DescriptionRequired]
    ELSE IF Trim(data.email) = EmptyStr THEN [f \in {"email"} |-> EmailRequired]
    ELSE IF ~EmailRegexTest(data.email) THEN [f \in {"email"} |-> InvalidEmail]
    ELSE <<>>

\* CreateTicketView.validate: the errors object
validate(data) ==
    LET bad == (IF Trim(data.title) = EmptyStr THEN {"title"} ELSE {})
               \cup (IF Trim(data.description) = EmptyStr THEN {"description"} ELSE {})
               \cup (IF Trim(data.email) = EmptyStr \/ ~EmailRegexTest(data.email)
                     THEN {"email"} ELSE {})
    IN  [f \in bad |->
            CASE f = "title" -> TitleRequired
              [] f = "description" -> DescriptionRequired
              [] f = "email" ->
                    IF Trim(data.email) = EmptyStr THEN EmailRequired ELSE InvalidEmail]

\* CreateTicketView.handleSubmit
handleSubmit(s) ==
    LET errors == validate(s.formData)
        s1 == [s EXCEPT !.validationErrors = errors]
    IN  IF DOMAIN errors = {} THEN handleCreateTicket(s1, s.formData) ELSE s1

\* faulty variant: the list of a request that a newer one overtook is dropped
Settle_DropOvertaken(s, task, resp) ==
    LET r == ApiResult(task.kind, resp)
        failed == CatchFinally([s EXCEPT !.failed = ApiName(task.kind), !.msg = r.message])
    IN  CASE task.kind = "load" ->
                IF r.ok
                THEN IF task.overtaken THEN [s EXCEPT !.loading = FALSE]
                     ELSE [s EXCEPT !.tickets = resp.tickets, !.success = TicketsLoaded,
                                    !.loading = FALSE]
                ELSE failed
          [] task.kind = "create" ->
                IF r.ok
                THEN LET s1 == [s EXCEPT !.success = TicketCreated, !.view = "home"]
                     IN  IF task.admin THEN loadTickets(s1)
                         ELSE [s1 EXCEPT !.loading = FALSE]
                ELSE failed
          [] task.kind = "update" ->
                IF r.ok THEN loadTickets([s EXCEPT !.success = StatusUpdated])
                ELSE failed
          [] task.kind = "delete" ->
                IF r.ok THEN loadTickets([s EXCEPT !.success = TicketDeleted])
                ELSE failed

\* The continuation of a handler once the fetch() of task settled as resp
Settle(s, task, resp) ==
    LET r == ApiResult(task.kind, resp)
        failed == CatchFinally([s EXCEPT !.failed = ApiName(task.kind), !.msg = r.message])
    IN  CASE task.kind = "load" ->
                IF r.ok
                THEN [s EXCEPT !.tickets = resp.tickets, !.success = TicketsLoaded,
                               !.loading = FALSE]
                ELSE failed
          [] task.kind = "create" ->
                IF r.ok
                THEN LET s1 == [s EXCEPT !.success = TicketCreated, !.view = "home"]
                     IN  IF task.admin THEN loadTickets(s1)
                         ELSE [s1 EXCEPT !.loading = FALSE]
                ELSE failed
          [] task.kind = "update" ->
                IF r.ok THEN loadTickets([s EXCEPT !.success = StatusUpdated])
                ELSE failed
          [] task.kind = "delete" ->
                IF r.ok THEN loadTickets([s EXCEPT !.success = TicketDeleted])
                ELSE failed

\* What the step did, for the properties: the response it delivered, the list
\* the response carried, and whether a newer list request had been answered
\* before it.
Event(op, s, resp) ==
    [op |-> op, input |-> s.input, calls |-> s.calls, reqs |-> s.reqs, failed |-> s.failed,
     msg |-> s.msg, resp |-> resp.type, respError |-> resp.error, at |-> s.at,
     overtaken |-> resp.overtaken, delivered |-> resp.tickets]

NoResp == [type |-> "none", error |-> NoMsg, tickets |-> <<>>, overtaken |-> FALSE]

\* The state after a handler; CreateTicketView unmounts when the view leaves
\* 'create' and AdminView when it leaves 'admin', and mount again with their
\* initial state.
Commit(op, s, resp) ==
    /\ Len(s.inflight) <= MaxInFlight
    /\ view' = s.view
    /\ tickets' = s.tickets
    /\ loading' = s.loading
    /\ error' = s.error
    /\ success' = s.success
    /\ isAdmin' = s.isAdmin
    /\ formData' = IF s.view = "create" THEN s.formData ELSE EmptyForm
    /\ validationErrors' = IF s.view = "create" THEN s.validationErrors ELSE <<>>
    /\ filter' = IF s.view = "admin" THEN s.filter ELSE "all"
    /\ inflight' = s.inflight
    /\ settingsEntry' = IF s.view # "settings" THEN FALSE
                        ELSE IF view = "settings" THEN settingsEntry ELSE s.isAdmin
    /\ lastEvent' = Event(op, s, resp)
    /\ UNCHANGED <<impl, p0Vars, logVars>>

RemoveAt(q, i) == SubSeq(q, 1, i - 1) \o SubSeq(q, i + 1, Len(q))

\* JS property read: undefined when the object has no such key
Field(obj, key) == IF key \in DOMAIN obj THEN obj[key] ELSE Undefined


---------------------------------------------------------------------------
(* App (src/app.js): events *)

\* HomeView: onCreateTicket: () => setView('create')
onCreateTicket ==
    /\ impl = "app" /\ view = "home"
    /\ Commit("onCreateTicket", [Current EXCEPT !.view = "create"], NoResp)
    /\ UNCHANGED configItem

\* HomeView: onAdminLogin: () => setView('login')
onAdminLogin ==
    /\ impl = "app" /\ view = "home"
    /\ Commit("onAdminLogin", [Current EXCEPT !.view = "login"], NoResp)
    /\ UNCHANGED configItem

\* CreateTicketView: onChange of title, description, email
setFormData ==
    /\ impl = "app" /\ view = "create"
    /\ \E typed \in TypedForms :
          /\ typed # formData
          /\ Commit("setFormData", [Current EXCEPT !.formData = typed], NoResp)
    /\ UNCHANGED configItem

\* CreateTicketView: the form's onSubmit, at clock reading now.  Only
\* createTicket reads the clock: a submission that validate() stops is the
\* same at every reading, and is taken at reading 0.
onSubmitCreate ==
    /\ impl = "app" /\ view = "create"
    /\ \E now \in 0..MaxClock, elapsed \in 0..MaxElapsed :
          /\ DOMAIN validate(formData) # {} => now = 0 /\ elapsed = 0
          /\ Commit("handleSubmit",
                    handleSubmit([Current EXCEPT !.at = now, !.date = now + elapsed]), NoResp)
    /\ UNCHANGED configItem

\* CreateTicketView: onCancel: () => setView('home')
onCancelCreate ==
    /\ impl = "app" /\ view = "create"
    /\ Commit("onCancelCreate", [Current EXCEPT !.view = "home"], NoResp)
    /\ UNCHANGED configItem

\* LoginView: handleSubmit: onLogin(password)
onLogin ==
    /\ impl = "app" /\ view = "login"
    /\ \E password \in PasswordInputs :
          Commit("handleAdminLogin", handleAdminLogin(Current, password), NoResp)
    /\ UNCHANGED configItem

\* LoginView: onCancel: () => setView('home')
onCancelLogin ==
    /\ impl = "app" /\ view = "login"
    /\ Commit("onCancelLogin", [Current EXCEPT !.view = "home"], NoResp)
    /\ UNCHANGED configItem

\* header: isAdmin && button onClick: () => setView('settings')
onSettings ==
    /\ impl = "app" /\ isAdmin
    /\ Commit("onSettings", [Current EXCEPT !.view = "settings"], NoResp)
    /\ UNCHANGED configItem

\* header: isAdmin && button onClick: loadTickets, disabled: loading
onHeaderRefresh ==
    /\ impl = "app" /\ isAdmin /\ ~loading
    /\ Commit("loadTickets", loadTickets(Current), NoResp)
    /\ UNCHANGED configItem

\* header: isAdmin && button onClick: handleLogout
onLogout ==
    /\ impl = "app" /\ isAdmin
    /\ Commit("handleLogout", handleLogout(Current), NoResp)
    /\ UNCHANGED configItem

\* AdminView: onRefresh: loadTickets
onRefresh ==
    /\ impl = "app" /\ view = "admin"
    /\ Commit("loadTickets", loadTickets(Current), NoResp)
    /\ UNCHANGED configItem

\* AdminView: filter === 'all' ? tickets : tickets.filter(t => t.Status === filter)
filteredTickets(list, chosen) ==
    IF chosen = "all" THEN list
    ELSE SelectSeq(list, LAMBDA t : Field(t, "Status") = chosen)

\* AdminView: the filter buttons: onClick: () => setFilter(status); setting the
\* state to the value it has renders nothing anew
setFilter ==
    /\ impl = "app" /\ view = "admin"
    /\ \E status \in FilterInputs :
          /\ status # filter
          /\ Commit("setFilter", [Current EXCEPT !.filter = status], NoResp)
    /\ UNCHANGED configItem

\* AdminView: select onChange of a displayed ticket:
\* onUpdateStatus(ticket.ID, e.target.value)
onUpdateStatus ==
    /\ impl = "app" /\ view = "admin"
    /\ \E i \in DOMAIN filteredTickets(tickets, filter), status \in Statuses :
          Commit("handleUpdateStatus",
                 handleUpdateStatus(Current,
                                    Field(filteredTickets(tickets, filter)[i], "ID"), status),
                 NoResp)
    /\ UNCHANGED configItem

\* AdminView: button onClick of a displayed ticket: onDelete(ticket.ID);
\* confirm() answers confirmed
onDelete ==
    /\ impl = "app" /\ view = "admin"
    /\ \E i \in DOMAIN filteredTickets(tickets, filter), confirmed \in BOOLEAN :
          Commit(IF confirmed THEN "handleDeleteTicket" ELSE "handleDeleteTicket:declined",
                 handleDeleteTicket(Current,
                                    Field(filteredTickets(tickets, filter)[i], "ID"), confirmed),
                 NoResp)
    /\ UNCHANGED configItem

\* faulty variant: Settings is always left for Home
ReturnView_Home(admin) == "home"

\* isAdmin ? 'admin' : 'home'
ReturnView(admin) == IF admin THEN "admin" ELSE "home"

\* SettingsView: onSave: handleSaveConfig(newConfig); localStorage.setItem
\* throws (quota) when ~stored
handleSaveConfig ==
    /\ impl = "app" /\ view = "settings"
    /\ \E newConfig \in ConfigInputs, stored \in BOOLEAN :
          LET errors == ConfigManager_validate(newConfig)
              saved == ConfigManager_set(configItem, newConfig, stored)
          IN  IF errors # <<>>
              THEN /\ stored
                   /\ Commit("handleSaveConfig:invalid",
                             [Current EXCEPT !.error = Join(errors)], NoResp)
                   /\ UNCHANGED configItem
              ELSE /\ configItem' = saved.item
                   /\ IF saved.result
                      THEN Commit("handleSaveConfig",
                                  [Current EXCEPT !.success = ConfigSaved,
                                                  !.view = ReturnView(isAdmin)],
                                  NoResp)
                      ELSE Commit("handleSaveConfig:failed",
                                  [Current EXCEPT !.error = SaveFailed], NoResp)

\* SettingsView: onCancel: () => setView(isAdmin ? 'admin' : 'home')
onCancelSettings ==
    /\ impl = "app" /\ view = "settings"
    /\ Commit("onCancelSettings", [Current EXCEPT !.view = ReturnView(isAdmin)], NoResp)
    /\ UNCHANGED configItem

\* useEffect: five seconds after an alert is set, both alerts are cleared
clearAlerts ==
    /\ impl = "app" /\ (error # NoMsg \/ success # NoMsg)
    /\ Commit("clearAlerts", [Current EXCEPT !.error = NoMsg, !.success = NoMsg], NoResp)
    /\ UNCHANGED configItem

\* a fetch() of APIManager settles, in any order, and its handler continues
\* The requests still in flight once request i was answered with resp: the list
\* requests issued before a list request that was answered with a list are
\* marked as overtaken.
Pending(q, i, resp) ==
    LET answered == q[i].kind = "load" /\ ApiResult("load", resp).ok
        marked == [j \in DOMAIN q |->
                      IF answered /\ j < i /\ q[j].kind = "load"
                      THEN [q[j] EXCEPT !.overtaken = TRUE] ELSE q[j]]
    IN  RemoveAt(marked, i)

settle ==
    /\ impl = "app"
    /\ \E i \in DOMAIN inflight, resp \in Responses :
          /\ inflight[i].kind # "load" => resp.tickets = <<>>
          /\ Commit("settle:" \o inflight[i].kind,
                    Settle([Current EXCEPT !.inflight = Pending(inflight, i, resp)],
                           inflight[i], resp),
                    resp @@ [overtaken |-> inflight[i].overtaken])
    /\ UNCHANGED configItem

NextApp ==
    \/ onCreateTicket \/ onAdminLogin \/ setFormData \/ onSubmitCreate \/ onCancelCreate
    \/ onLogin \/ onCancelLogin \/ onSettings \/ onHeaderRefresh \/ onLogout
    \/ onRefresh \/ setFilter \/ onUpdateStatus \/ onDelete \/ handleSaveConfig \/ onCancelSettings
    \/ clearAlerts \/ settle

---------------------------------------------------------------------------
(* src/unnamed/part_000 *)

P0Defaults == [ADMIN_PASSWORD |-> Admin123, SHEET_URL |-> EmptyStr, WEB_APP_URL |-> EmptyStr]

ErrorConnecting == <<"Error", "connecting", "to", "server">>
P0InvalidPassword == <<"Invalid", "password!">>
P0LoginOk == <<"Admin", "login", "successful!">>
P0LoggedOut == <<"Admin", "logged", "out", "successfully!">>
P0ConfigSaved == <<"Configuration", "saved", "successfully!">>
P0Created == <<"Ticket", "created", "successfully!">>
P0CreateFailed == <<"Failed", "to", "create", "ticket:">>
P0Updated == <<"Ticket", "status", "updated", "successfully!">>
P0UpdateFailed == <<"Failed", "to", "update", "ticket", "status">>
P0Deleted == <<"Ticket", "deleted", "successfully!">>
P0DeleteFailed == <<"Failed", "to", "delete", "ticket">>

\* loadConfig(): CONFIG = { ...CONFIG, ...JSON.parse(saved) }
loadConfig(config, item) == IF item.kind = "json" THEN item.value ELSE config

\* The record a part_000 handler maps: the globals, the screen, the requests
\* in flight, and what the handler did (msg: the notification it showed).
P0Current ==
    [CONFIG |-> CONFIG, item |-> p0ConfigItem, admin |-> adminItem, screen |-> screen,
     cards |-> cards, inflight |-> p0Inflight, timers |-> timers,
     input |-> <<>>, calls |-> <<>>, reqs |-> <<>>, failed |-> "none", msg |-> NoMsg,
     at |-> 0]

\* A fetch() in flight, as the awaiting handler holds it: the function that
\* awaits it and, for loadTicketsForAdmin, whether the admin list it renders
\* into is still in the document (the other continuations change nothing
\* outside their own container)
P0Task(kind) == [kind |-> kind, live |-> kind = "getTickets:admin"]

\* apiCall(endpoint, data) up to its fetch(url, options): the URL is
\* CONFIG.WEB_APP_URL, whatever it holds
apiCall(s, kind, id) ==
    [s EXCEPT !.calls = Append(@, kind),
              !.inflight = Append(@, P0Task(kind)),
              !.reqs = Append(@, Request(kind, s.CONFIG.WEB_APP_URL, id, ""))]

\* main.innerHTML = '': the containers of earlier renders leave the document
ClearMain(s, shown) ==
    [s EXCEPT !.screen = shown, !.cards = <<>>,
              !.inflight = [i \in DOMAIN s.inflight |-> [s.inflight[i] EXCEPT !.live = FALSE]]]

\* renderUserView(), with loadTicketsForUserView up to its await
renderUserView(s) == apiCall(ClearMain(s, "user"), "getTickets:user", Undefined)

renderAdminLogin(s) == ClearMain(s, "adminLogin")

\* renderAdminView(), with loadTicketsForAdmin up to its await
renderAdminView(s) ==
    IF ~s.admin THEN renderAdminLogin(s)
    ELSE apiCall(ClearMain(s, "admin"), "getTickets:admin", Undefined)

renderSettings(s) == ClearMain(s, "settings")

refreshTickets(s) == IF s.admin THEN renderAdminView(s) ELSE renderUserView(s)

p0HandleAdminLogin(s, password) ==
    IF password = s.CONFIG.ADMIN_PASSWORD
    THEN [renderAdminView([s EXCEPT !.admin = TRUE, !.input = password])
            EXCEPT !.msg = P0LoginOk]
    ELSE [s EXCEPT !.msg = P0InvalidPassword, !.input = password]

logoutAdmin(s) == [renderUserView([s EXCEPT !.admin = FALSE]) EXCEPT !.msg = P0LoggedOut]

\* saveConfiguration(): the three inputs are copied to CONFIG and stored
saveConfiguration(s, password, sheetUrl, webAppUrl) ==
    LET config == [ADMIN_PASSWORD |-> password, SHEET_URL |-> sheetUrl,
                   WEB_APP_URL |-> webAppUrl]
    IN  [s EXCEPT !.CONFIG = config, !.item = Stringify(config), !.msg = P0ConfigSaved]

RECURSIVE Reverse(_)
Reverse(q) == IF q = <<>> THEN <<>> ELSE Append(Reverse(Tail(q)), Head(q))

\* What apiCall returns once its fetch() settled as resp: the parsed body, or
\* {success: false, error} from the catch block (a rejected fetch, a body
\* that is not JSON), which also shows a notification
P0Result(resp) ==
    CASE resp.type = "success" -> [success |-> TRUE, tickets |-> resp.tickets, caught |-> FALSE]
      [] resp.type = "failure" -> [success |-> FALSE, tickets |-> <<>>, caught |-> FALSE]
      [] OTHER -> [success |-> FALSE, tickets |-> <<>>, caught |-> TRUE]

\* The continuation of a part_000 handler once the fetch() of task settled
P0Settle(s, task, resp) ==
    LET r == P0Result(resp)
        s1 == IF r.caught THEN [s EXCEPT !.msg = ErrorConnecting] ELSE s
    IN  CASE task.kind = "getTickets:user" -> s1
          [] task.kind = "getTickets:admin" ->
                IF task.live /\ r.success THEN [s1 EXCEPT !.cards = Reverse(r.tickets)]
                ELSE s1
          [] task.kind = "createTicket" ->
                [s1 EXCEPT !.msg = IF r.success THEN P0Created ELSE P0CreateFailed]
          [] task.kind = "updateTicketStatus" ->
                IF r.success THEN [s1 EXCEPT !.msg = P0Updated, !.timers = @ + 1]
                ELSE [s1 EXCEPT !.msg = P0UpdateFailed]
          [] task.kind = "deleteTicket" ->
                IF r.success THEN [s1 EXCEPT !.msg = P0Deleted, !.timers = @ + 1]
                ELSE [s1 EXCEPT !.msg = P0DeleteFailed]

P0Commit(op, s, resp) ==
    /\ Len(s.inflight) <= MaxInFlight
    /\ s.timers <= MaxTimers
    /\ CONFIG' = s.CONFIG
    /\ p0ConfigItem' = s.item
    /\ adminItem' = s.admin
    /\ screen' = s.screen
    /\ cards' = s.cards
    /\ p0Inflight' = s.inflight
    /\ timers' = s.timers
    /\ lastEvent' = Event(op, s, resp)
    /\ UNCHANGED <<impl, appVars, logVars, settingsEntry>>

\* createHeader: userLink.onclick; renderSettings: the Back button
p0UserLink ==
    /\ impl = "part000"
    /\ P0Commit("renderUserView", renderUserView(P0Current), NoResp)

\* createHeader: adminLink.onclick
p0AdminLink ==
    /\ impl = "part000"
    /\ P0Commit("renderAdminLogin", renderAdminLogin(P0Current), NoResp)

\* createHeader: settingsLink.onclick
p0SettingsLink ==
    /\ impl = "part000"
    /\ P0Commit("renderSettings", renderSettings(P0Current), NoResp)

\* createTicketForm: form.onsubmit up to its await
p0SubmitTicket ==
    /\ impl = "part000" /\ screen = "user"
    /\ P0Commit("form.onsubmit", apiCall(P0Current, "createTicket", Undefined), NoResp)

\* renderAdminLogin: the Login button
p0Login ==
    /\ impl = "part000" /\ screen = "adminLogin"
    /\ \E password \in PasswordInputs :
          P0Commit("handleAdminLogin", p0HandleAdminLogin(P0Current, password), NoResp)

\* renderAdminView: the Refresh button
p0Refresh ==
    /\ impl = "part000" /\ screen = "admin"
    /\ P0Commit("refreshTickets", refreshTickets(P0Current), NoResp)

\* renderAdminView: the Logout button
p0Logout ==
    /\ impl = "part000" /\ screen = "admin"
    /\ P0Commit("logoutAdmin", logoutAdmin(P0Current), NoResp)

\* createAdminTicketCard: select onchange: updateTicketStatusHandler up to its await
p0UpdateStatus ==
    /\ impl = "part000" /\ screen = "admin"
    /\ \E i \in DOMAIN cards :
          LET id == IF "ID" \in DOMAIN cards[i] THEN cards[i].ID ELSE Field(cards[i], "id")
          IN  P0Commit("updateTicketStatusHandler",
                       apiCall(P0Current, "updateTicketStatus", id), NoResp)

\* createAdminTicketCard: the Delete button: deleteTicketHandler up to its await
p0Delete ==
    /\ impl = "part000" /\ screen = "admin"
    /\ \E i \in DOMAIN cards, confirmed \in BOOLEAN :
          LET id == IF "ID" \in DOMAIN cards[i] THEN cards[i].ID ELSE Field(cards[i], "id")
          IN  IF confirmed
              THEN P0Commit("deleteTicketHandler",
                            apiCall(P0Current, "deleteTicket", id), NoResp)
              ELSE P0Commit("deleteTicketHandler:declined", P0Current, NoResp)

\* renderSettings: the Save Configuration button
p0Save ==
    /\ impl = "part000" /\ screen = "settings"
    /\ \E c \in ConfigInputs :
          P0Commit("saveConfiguration",
                   saveConfiguration(P0Current, c.adminPassword, c.sheetUrl, c.webAppUrl),
                   NoResp)

\* a fetch() of apiCall settles, in any order, and its handler continues
p0Settle ==
    /\ impl = "part000"
    /\ \E i \in DOMAIN p0Inflight, resp \in Responses :
          /\ p0Inflight[i].kind # "getTickets:admin" => resp.tickets = <<>>
          /\ P0Commit("settle:" \o p0Inflight[i].kind,
                      P0Settle([P0Current EXCEPT !.inflight = RemoveAt(p0Inflight, i)],
                               p0Inflight[i], resp),
                      resp @@ [overtaken |-> FALSE])

\* setTimeout(() => refreshTickets(), 1000) fires
p0Timer ==
    /\ impl = "part000" /\ timers > 0
    /\ P0Commit("timer:refreshTickets",
                refreshTickets([P0Current EXCEPT !.timers = @ - 1]), NoResp)

NextP0 ==
    \/ p0UserLink \/ p0AdminLink \/ p0SettingsLink \/ p0SubmitTicket \/ p0Login
    \/ p0Refresh \/ p0Logout \/ p0UpdateStatus \/ p0Delete \/ p0Save \/ p0Settle
    \/ p0Timer

---------------------------------------------------------------------------
(* The page after its script has run *)

\* what localStorage may hold from an earlier visit
StoredConfig == [adminPassword |-> Secret1, sheetUrl |-> EmptyStr, webAppUrl |-> OldScriptUrl]
P0StoredConfig ==
    [ADMIN_PASSWORD |-> Secret1, SHEET_URL |-> EmptyStr, WEB_APP_URL |-> ScriptUrl]

\* src/app.js: createRoot(...).render(h(App))
InitApp ==
    /\ impl = "app"
    /\ view = "home"
    /\ tickets = <<>>
    /\ loading = FALSE
    /\ error = NoMsg
    /\ success = NoMsg
    /\ isAdmin = FALSE
    /\ formData = EmptyForm
    /\ validationErrors = <<>>
    /\ filter = "all"
    /\ configItem \in {NoItem, Stringify(StoredConfig)}
    /\ inflight = <<>>
    /\ CONFIG = P0Defaults
    /\ p0ConfigItem = NoItem
    /\ adminItem = FALSE
    /\ screen = "none"
    /\ cards = <<>>
    /\ p0Inflight = <<>>
    /\ timers = 0
    /\ errorLog = <<>>
    /\ logged = <<>>
    /\ settingsEntry = FALSE
    /\ lastEvent = [op |-> "init", input |-> <<>>, calls |-> <<>>, reqs |-> <<>>,
                    failed |-> "none",
                    msg |-> NoMsg, resp |-> "none", respError |-> NoMsg, at |-> 0]

\* src/unnamed/part_000: initApp(): loadConfig(), then renderUserView()
InitP0 ==
    /\ impl = "part000"
    /\ view = "home"
    /\ tickets = <<>>
    /\ loading = FALSE
    /\ error = NoMsg
    /\ success = NoMsg
    /\ isAdmin = FALSE
    /\ formData = EmptyForm
    /\ validationErrors = <<>>
    /\ filter = "all"
    /\ configItem = NoItem
    /\ inflight = <<>>
    /\ p0ConfigItem \in {NoItem, Stringify(P0StoredConfig)}
    /\ adminItem \in BOOLEAN
    /\ errorLog = <<>>
    /\ logged = <<>>
    /\ settingsEntry = FALSE
    /\ LET s == renderUserView(
                    [CONFIG |-> loadConfig(P0Defaults, p0ConfigItem), item |-> p0ConfigItem,
                     admin |-> adminItem, screen |-> "none", cards |-> <<>>,
                     inflight |-> <<>>, timers |-> 0, input |-> <<>>, calls |-> <<>>,
                     reqs |-> <<>>,
                     failed |-> "none", msg |-> NoMsg, at |-> 0])
       IN  /\ CONFIG = s.CONFIG
           /\ screen = s.screen
           /\ cards = s.cards
           /\ p0Inflight = s.inflight
           /\ timers = s.timers
           /\ lastEvent = Event("initApp", s, NoResp)

Init == InitApp \/ InitP0

Next == NextApp \/ NextP0

Spec == Init /\ [][Next]_vars

\* src/app.js with the create form open and any text typed into it
InitTyped ==
    /\ impl = "app"
    /\ view = "create"
    /\ tickets = <<>>
    /\ loading = FALSE
    /\ error = NoMsg
    /\ success = NoMsg
    /\ isAdmin = FALSE
    /\ formData \in {[EmptyForm EXCEPT !.title = t, !.description = d, !.email = e] :
                        t \in AllTexts, d \in AllTexts, e \in AllEmails}
    /\ validationErrors = <<>>
    /\ filter = "all"
    /\ configItem = Stringify(StoredConfig)
    /\ inflight = <<>>
    /\ CONFIG = P0Defaults
    /\ p0ConfigItem = NoItem
    /\ adminItem = FALSE
    /\ screen = "none"
    /\ cards = <<>>
    /\ p0Inflight = <<>>
    /\ timers = 0
    /\ errorLog = <<>>
    /\ logged = <<>>
    /\ settingsEntry = FALSE
    /\ lastEvent = [op |-> "setFormData", input |-> <<>>, calls |-> <<>>, reqs |-> <<>>,
                    failed |-> "none", msg |-> NoMsg, resp |-> "none", respError |-> NoMsg,
                    at |-> 0]

\* Spec, started also from every typed form
SpecForm == (Init \/ InitTyped) /\ [][Next]_vars

---------------------------------------------------------------------------
(* ErrorLogger and ConfigManager called directly *)

\* what a call of one of the two classes did: its argument, what it returned,
\* whether it threw; set and saved carry the record of the last set() that
\* returned true
StoreEvent(op, arg, result, threw, set, saved) ==
    [op |-> op, input |-> <<>>, calls |-> <<>>, reqs |-> <<>>, failed |-> "none",
     msg |-> NoMsg, resp |-> "none", respError |-> NoMsg, at |-> 0,
     arg |-> arg, result |-> result, threw |-> threw, set |-> set, saved |-> saved]

\* the entries of the log calls so far whose write was refused
WriteFailures == Cardinality({i \in DOMAIN logged : ~logged[i].stored})

\* One ErrorLogger.log call inside a step: the persisted log and the record
\* of calls after it.  The calls since the last clear read the clock at
\* 1, 2, ...
LogCall(context, message, stored) ==
    LET entry == LogEntry(Len(logged) + 1, context, message)
    IN  /\ errorLog' = ErrorLogger_log(errorLog, entry, stored)
        /\ logged' = Append(logged, [entry |-> entry, stored |-> stored])

SyntaxError == <<"Unexpected", "token">>
QuotaExceeded == <<"The", "quota", "has", "been", "exceeded.">>

\* records handed to ConfigManager.set: with every field, with fields
\* missing, with an undefined field
SavedConfigs ==
    { [adminPassword |-> Secret1, sheetUrl |-> EmptyStr, webAppUrl |-> ScriptUrl],
      getDefaults,
      [adminPassword |-> Admin123],
      [adminPassword |-> NoValue, sheetUrl |-> EmptyStr, webAppUrl |-> ScriptUrl] }

\* records handed to ConfigManager.validate
UrlWords == {"https://", "docs.google.com/spreadsheets", "script.google.com"}
PasswordsToValidate ==
    {NoValue} \cup {[i \in 1..n |-> "p"] : n \in 0..MaxPasswordLen}
UrlsToValidate == SeqsUpTo(UrlWords, MaxUrlWords)
ConfigsToValidate ==
    {[adminPassword |-> pw, sheetUrl |-> s, webAppUrl |-> w] :
        pw \in PasswordsToValidate, s \in UrlsToValidate, w \in UrlsToValidate}

\* ErrorLogger.log(error, context)
logError ==
    /\ impl = "app"
    /\ Len(logged) < MaxLogCalls
    /\ \E stored \in BOOLEAN :
          /\ ~stored => WriteFailures < MaxWriteFailures
          /\ LogCall("APIManager.fetchTickets", FailedToFetch, stored)
    /\ lastEvent' = StoreEvent("ErrorLogger.log", <<>>, <<>>, FALSE, FALSE, <<>>)
    /\ UNCHANGED <<impl, appVars, p0Vars, settingsEntry>>

\* ErrorLogger.clear()
clearErrors ==
    /\ impl = "app"
    /\ errorLog' = ErrorLogger_clear(errorLog)
    /\ logged' = <<>>
    /\ lastEvent' = StoreEvent("ErrorLogger.clear", <<>>, <<>>, FALSE, FALSE, <<>>)
    /\ UNCHANGED <<impl, appVars, p0Vars, settingsEntry>>

\* ConfigManager.get()
getConfig ==
    /\ impl = "app"
    /\ LET got == TryGet(configItem)
       IN  /\ IF got.caught
              THEN /\ Len(logged) < MaxConfigErrors
                   /\ \E stored \in BOOLEAN : LogCall("ConfigManager.get", SyntaxError, stored)
              ELSE UNCHANGED logVars
           /\ lastEvent' = StoreEvent("ConfigManager.get", <<>>, got.value, got.threw,
                                      lastEvent.set, lastEvent.saved)
    /\ UNCHANGED <<impl, appVars, p0Vars, settingsEntry>>

\* ConfigManager.set(config); localStorage.setItem throws when ~stored
setConfig ==
    /\ impl = "app"
    /\ \E config \in SavedConfigs, stored \in BOOLEAN :
          LET done == ConfigManager_set(configItem, config, stored)
          IN  /\ configItem' = done.item
              /\ IF done.caught
                 THEN /\ Len(logged) < MaxConfigErrors
                      /\ \E logStored \in BOOLEAN :
                            LogCall("ConfigManager.set", QuotaExceeded, logStored)
                 ELSE UNCHANGED logVars
              /\ lastEvent' = StoreEvent("ConfigManager.set", config, done.result, done.threw,
                                         done.result \/ lastEvent.set,
                                         IF done.result THEN config ELSE lastEvent.saved)
    /\ UNCHANGED <<impl, view, tickets, loading, error, success, isAdmin, formData,
                   validationErrors, filter, inflight, p0Vars, settingsEntry>>

\* ConfigManager.validate(config), for the record at hand
validateConfig ==
    /\ impl = "app"
    /\ lastEvent.op = "config"
    /\ lastEvent' = StoreEvent("ConfigManager.validate", lastEvent.arg,
                               ConfigManager_validate(lastEvent.arg), FALSE, FALSE, <<>>)
    /\ UNCHANGED <<impl, appVars, p0Vars, logVars, settingsEntry>>

\* the page of src/app.js loaded, with whatever localStorage holds
InitStore ==
    /\ impl = "app"
    /\ view = "home"
    /\ tickets = <<>>
    /\ loading = FALSE
    /\ error = NoMsg
    /\ success = NoMsg
    /\ isAdmin = FALSE
    /\ formData = EmptyForm
    /\ validationErrors = <<>>
    /\ filter = "all"
    /\ configItem = NoItem
    /\ inflight = <<>>
    /\ CONFIG = P0Defaults
    /\ p0ConfigItem = NoItem
    /\ adminItem = FALSE
    /\ screen = "none"
    /\ cards = <<>>
    /\ p0Inflight = <<>>
    /\ timers = 0
    /\ errorLog = <<>>
    /\ logged = <<>>
    /\ settingsEntry = FALSE
    /\ lastEvent = StoreEvent("init", <<>>, <<>>, FALSE, FALSE, <<>>)

NextLog == logError \/ clearErrors

\* ErrorLogger, from an empty log
SpecLog == InitStore /\ [][NextLog]_vars

\* the page loaded with whatever an earlier visit or another script stored
InitConfig ==
    /\ impl = "app"
    /\ view = "home"
    /\ tickets = <<>>
    /\ loading = FALSE
    /\ error = NoMsg
    /\ success = NoMsg
    /\ isAdmin = FALSE
    /\ formData = EmptyForm
    /\ validationErrors = <<>>
    /\ filter = "all"
    /\ configItem \in {NoItem, CorruptItem, Stringify(StoredConfig)}
    /\ inflight = <<>>
    /\ CONFIG = P0Defaults
    /\ p0ConfigItem = NoItem
    /\ adminItem = FALSE
    /\ screen = "none"
    /\ cards = <<>>
    /\ p0Inflight = <<>>
    /\ timers = 0
    /\ errorLog = <<>>
    /\ logged = <<>>
    /\ settingsEntry = FALSE
    /\ lastEvent = StoreEvent("init", <<>>, <<>>, FALSE, FALSE, <<>>)

NextConfig == getConfig \/ setConfig \/ clearErrors

\* ConfigManager.get and ConfigManager.set, from whatever is stored
SpecConfig == InitConfig /\ [][NextConfig]_vars

\* a record to validate at hand
InitValidate ==
    /\ impl = "app"
    /\ view = "home"
    /\ tickets = <<>>
    /\ loading = FALSE
    /\ error = NoMsg
    /\ success = NoMsg
    /\ isAdmin = FALSE
    /\ formData = EmptyForm
    /\ validationErrors = <<>>
    /\ filter = "all"
    /\ configItem = NoItem
    /\ inflight = <<>>
    /\ CONFIG = P0Defaults
    /\ p0ConfigItem = NoItem
    /\ adminItem = FALSE
    /\ screen = "none"
    /\ cards = <<>>
    /\ p0Inflight = <<>>
    /\ timers = 0
    /\ errorLog = <<>>
    /\ logged = <<>>
    /\ settingsEntry = FALSE
    /\ \E config \in ConfigsToValidate :
          lastEvent = StoreEvent("config", config, <<>>, FALSE, FALSE, <<>>)

\* ConfigManager.validate, over every record of ConfigsToValidate
SpecValidate == InitValidate /\ [][validateConfig]_vars

---------------------------------------------------------------------------
(* Properties *)

Range(q) == {q[i] : i \in DOMAIN q}
ApiKinds == {"load", "create", "update", "delete"}
ConfigErrors == {FetchNotConfigured, NotConfigured}

\* the web-app URL a gateway call of the running implementation reads
ConfiguredUrl ==
    IF impl = "app" THEN ConfigManager_get(configItem).webAppUrl ELSE CONFIG.WEB_APP_URL

\* C1: in both implementations, a gateway operation called while the
\* configured web-app URL is empty fails with a configuration error and sends
\* no HTTP request.  (No handler both changes the configuration and calls the
\* gateway, so the URL of the state after the handler is the URL it read.)
C1_ConfigErrorBeforeNetwork ==
    (lastEvent.calls # <<>> /\ ConfiguredUrl = EmptyStr)
        => /\ lastEvent.reqs = <<>>
           /\ lastEvent.failed # "none"
           /\ lastEvent.msg \in ConfigErrors

\* the fields of a draft the claim C2 calls offending
WhitespaceOnly(s) == \A i \in DOMAIN s : IsSpace(s[i])
Offending(data) ==
    (IF WhitespaceOnly(data.title) THEN {"title"} ELSE {})
    \cup (IF WhitespaceOnly(data.description) THEN {"description"} ELSE {})
    \cup (IF data.email = EmptyStr \/ ~EmailRegexTest(data.email) THEN {"email"} ELSE {})

\* C2: when handleSubmit of CreateTicketView runs on a draft with an offending
\* field, the error mapping it stores has exactly the offending fields as its
\* keys, and it calls no APIManager method and sends no request.  (handleSubmit
\* leaves the view on 'create' and the draft as typed.)
C2_InvalidDraftNotSubmitted ==
    (impl = "app" /\ lastEvent.op = "handleSubmit" /\ Offending(formData) # {})
        => /\ DOMAIN validationErrors = Offending(formData)
           /\ lastEvent.calls = <<>>
           /\ lastEvent.reqs = <<>>

C2_Witness ==
    /\ impl = "app" /\ lastEvent.op = "handleSubmit"
    /\ Offending(formData) = {"email"}
    /\ formData.email # EmptyStr
    /\ DOMAIN validationErrors = {"email"}

\* what a rejected fetch() surfaces as, per APIManager method
TransportSurfaced(kind) ==
    {ApiResult(kind, [type |-> "reject", tickets |-> <<>>, error |-> m]).message :
        m \in TransportMessages}

\* C3: for every APIManager operation, an endpoint response {success: false,
\* error: X} surfaces exactly X (the operation's fallback when no X is given),
\* which is not the message a transport failure surfaces as and not the
\* connection message.
C3_EndpointErrorVerbatim ==
    \A kind \in ApiKinds :
        (impl = "app" /\ lastEvent.op = "settle:" \o kind /\ lastEvent.resp = "failure")
            => /\ error = (IF lastEvent.respError # NoMsg THEN lastEvent.respError
                           ELSE Fallback(kind))
               /\ error \notin TransportSurfaced(kind)
               /\ error # CannotConnect

C6_DeclinedDeleteChangesNothing ==
    [][(impl = "app" /\ lastEvent'.op = "handleDeleteTicket:declined")
        => /\ UNCHANGED <<view, tickets, loading, error, success, isAdmin, inflight>>
           /\ lastEvent'.calls = <<>>
           /\ lastEvent'.reqs = <<>>]_vars

C6_Witness ==
    /\ impl = "app" /\ lastEvent.op = "handleDeleteTicket:declined"
    /\ view = "admin" /\ tickets # <<>> /\ ~loading

\* C7: whenever a gateway call made by handleCreateTicket, handleUpdateStatus,
\* handleDeleteTicket or loadTickets fails, the ticket list is unchanged, error
\* is set to the failure's message, which is not empty, and the failure does
\* not move the view: the view changes in such a step only by the setView the
\* handler made before it called loadTickets (handleAdminLogin to 'admin',
\* handleCreateTicket after its own success to 'home').
C7_FailureKeepsStateAndSurfaces ==
    [][(impl = "app" /\ lastEvent'.failed # "none")
        => /\ tickets' = tickets
           /\ lastEvent'.msg # NoMsg
           /\ error' = lastEvent'.msg
           /\ \/ view' = view
              \/ lastEvent'.op = "handleAdminLogin" /\ view' = "admin"
              \/ /\ lastEvent'.op = "settle:create" /\ lastEvent'.resp = "success"
                 /\ lastEvent'.failed = "fetchTickets" /\ view' = "home"]_vars

C7_Witness ==
    /\ impl = "app" /\ lastEvent.op = "settle:update" /\ lastEvent.resp = "reject"
    /\ lastEvent.failed = "updateTicket"
    /\ view = "admin" /\ tickets # <<>> /\ error = FailedToFetch

Views == {"home", "create", "login", "admin", "settings"}
TransitionTable ==
    { <<"home", "create">>, <<"home", "login">>, <<"create", "home">>,
      <<"login", "admin">>, <<"login", "home">>, <<"admin", "home">>,
      <<"admin", "settings">>, <<"settings", "admin">>, <<"settings", "home">> }

\* C8: the view starts as 'home', is always one of the five views, and every
\* change of view is a transition of the table.
C8_ViewTransitions ==
    /\ impl = "app" => view = "home"
    /\ [](view \in Views)
    /\ [][impl = "app" /\ view' # view => <<view, view'>> \in TransitionTable]_vars

\* C9: handleLogout clears isAdmin, empties the ticket list, moves the view to
\* 'home', and calls no APIManager method and sends no request.
C9_Logout ==
    (impl = "app" /\ lastEvent.op = "handleLogout")
        => /\ ~isAdmin /\ tickets = <<>> /\ view = "home"
           /\ lastEvent.calls = <<>> /\ lastEvent.reqs = <<>>

C9_Witness ==
    /\ impl = "app" /\ lastEvent.op = "handleLogout"
    /\ ~isAdmin /\ view = "home" /\ success = LoggedOut /\ inflight # <<>>

IsReload(req) == req.method = "GET"

\* C10 as claimed: handleUpdateStatus and handleDeleteTicket send no reload
\* request with their own request; when the update or delete is acknowledged
\* with success, the reload request is sent; when it fails, none is.
C10_ReloadAfterEverySuccess ==
    /\ (impl = "app" /\ lastEvent.op \in {"handleUpdateStatus", "handleDeleteTicket"})
            => \A i \in DOMAIN lastEvent.reqs : ~IsReload(lastEvent.reqs[i])
    /\ (impl = "app" /\ lastEvent.op \in {"settle:update", "settle:delete"})
            => IF lastEvent.resp = "success"
               THEN Len(lastEvent.reqs) = 1 /\ IsReload(lastEvent.reqs[1])
               ELSE lastEvent.reqs = <<>>

\* C10 as amended: handleUpdateStatus and handleDeleteTicket send no reload
\* request with their own request; when the update or delete is acknowledged
\* with success, loadTickets is called, and it sends the reload request if a
\* web-app URL is configured at that moment, and otherwise sets the
\* configuration error and sends nothing; when the update or delete fails,
\* loadTickets is not called and no request is sent.
C10_ReloadAfterSuccessIfConfigured ==
    /\ (impl = "app" /\ lastEvent.op \in {"handleUpdateStatus", "handleDeleteTicket"})
            => /\ \A i \in DOMAIN lastEvent.reqs : ~IsReload(lastEvent.reqs[i])
               /\ "fetchTickets" \notin Range(lastEvent.calls)
    /\ (impl = "app" /\ lastEvent.op \in {"settle:update", "settle:delete"})
            => IF lastEvent.resp = "success"
               THEN /\ lastEvent.calls = <<"fetchTickets">>
                    /\ IF ConfiguredUrl # EmptyStr
                       THEN /\ Len(lastEvent.reqs) = 1 /\ IsReload(lastEvent.reqs[1])
                            /\ lastEvent.reqs[1].url = ConfiguredUrl
                       ELSE lastEvent.reqs = <<>> /\ error = FetchNotConfigured
               ELSE lastEvent.calls = <<>> /\ lastEvent.reqs = <<>>

C10_Witness ==
    /\ impl = "app" /\ lastEvent.op = "settle:delete" /\ lastEvent.resp = "success"
    /\ Len(lastEvent.reqs) = 1 /\ IsReload(lastEvent.reqs[1])
    /\ success = TicketDeleted /\ loading

\* C11: leaving the Settings view of app.js by a successful save or by cancel
\* moves the view to 'admin' if isAdmin was set when Settings was entered,
\* and to 'home' otherwise.
C11_SettingsReturn ==
    [][(impl = "app" /\ view = "settings"
        /\ lastEvent'.op \in {"handleSaveConfig", "onCancelSettings"})
        => view' = (IF settingsEntry THEN "admin" ELSE "home")]_vars

C11_Witness ==
    /\ impl = "app" /\ lastEvent.op = "handleSaveConfig"
    /\ view = "admin" /\ isAdmin /\ success = ConfigSaved /\ inflight # <<>>

P0AsConfig(c) ==
    [adminPassword |-> c.ADMIN_PASSWORD, sheetUrl |-> c.SHEET_URL, webAppUrl |-> c.WEB_APP_URL]

\* C12: in both implementations the persisted configuration changes only in a
\* save on the settings screen (handleSaveConfig, saveConfiguration), and
\* only to a configuration that passes validation.
C12_PersistedOnlyByValidSave ==
    [][/\ configItem' # configItem
            => /\ lastEvent'.op = "handleSaveConfig"
               /\ ConfigManager_validate(configItem'.value) = <<>>
       /\ p0ConfigItem' # p0ConfigItem
            => /\ lastEvent'.op = "saveConfiguration"
               /\ ConfigManager_validate(P0AsConfig(p0ConfigItem'.value)) = <<>>]_vars

\* what the POST of a submission must be: tagged 'create', carrying the
\* draft's fields and a createdAt not before the submission
IsCreateOf(req, draft, submittedAt) ==
    /\ req.method = "POST" /\ req.action = "create"
    /\ "ticket" \in DOMAIN req
    /\ \A k \in DOMAIN draft : k \in DOMAIN req.ticket /\ req.ticket[k] = draft[k]
    /\ "createdAt" \in DOMAIN req.ticket
    /\ req.ticket.createdAt >= submittedAt

\* C13 as claimed: each submission of a valid draft calls APIManager.createTicket
\* exactly once, and the call sends exactly one POST tagged 'create' whose
\* ticket carries the draft's fields and a createdAt at or after the submission.
C13_OneCreateRequestPerSubmission ==
    (impl = "app" /\ lastEvent.op = "handleSubmit" /\ Offending(formData) = {})
        => /\ lastEvent.calls = <<"createTicket">>
           /\ Len(lastEvent.reqs) = 1
           /\ IsCreateOf(lastEvent.reqs[1], formData, lastEvent.at)

\* C13 as amended: each submission of a valid draft calls APIManager.createTicket
\* exactly once; if a web-app URL is configured the call sends exactly one POST
\* tagged 'create' whose ticket carries the draft's fields and a createdAt at
\* or after the submission, and otherwise it sends nothing and the error is
\* the configuration error.
C13_OneCreateCallPerSubmission ==
    (impl = "app" /\ lastEvent.op = "handleSubmit" /\ Offending(formData) = {})
        => /\ lastEvent.calls = <<"createTicket">>
           /\ IF ConfiguredUrl # EmptyStr
              THEN /\ Len(lastEvent.reqs) = 1
                   /\ IsCreateOf(lastEvent.reqs[1], formData, lastEvent.at)
                   /\ lastEvent.reqs[1].url = ConfiguredUrl
              ELSE /\ lastEvent.reqs = <<>>
                   /\ error = NotConfigured

C13_Witness ==
    /\ impl = "app" /\ lastEvent.op = "handleSubmit" /\ Offending(formData) = {}
    /\ formData.email # ValidEmail
    /\ Len(lastEvent.reqs) = 1
    /\ lastEvent.at = MaxClock
    /\ lastEvent.reqs[1].ticket.createdAt > lastEvent.at

\* C14: ConfigManager.get() never throws, and returns the default
\* configuration when nothing is stored or the stored text does not parse.
C14_GetNeverThrows ==
    lastEvent.op = "ConfigManager.get"
        => /\ ~lastEvent.threw
           /\ configItem \in {NoItem, CorruptItem}
                => lastEvent.result = [adminPassword |-> Admin123, sheetUrl |-> EmptyStr,
                                       webAppUrl |-> EmptyStr]

C14_Witness ==
    /\ lastEvent.op = "ConfigManager.get" /\ configItem = CorruptItem
    /\ lastEvent.result = getDefaults /\ errorLog # <<>>

ConfigKeys == {"adminPassword", "sheetUrl", "webAppUrl"}

C16_FailedWrite ==
    /\ [](impl = "app"
            => \A config \in ConfigInputs :
                    LET done == ConfigManager_set(configItem, config, FALSE)
                    IN  ~done.result /\ ~done.threw /\ done.item = configItem)
    /\ [][(impl = "app" /\ lastEvent'.op = "handleSaveConfig:failed")
            => /\ configItem' = configItem
               /\ view' = "settings"
               /\ error' = SaveFailed]_vars

C16_Witness ==
    /\ impl = "app" /\ lastEvent.op = "handleSaveConfig:failed"
    /\ view = "settings" /\ error = SaveFailed /\ configItem = Stringify(StoredConfig)

HasWord(url, word) == \E i \in DOMAIN url : url[i] = word

\* C17: ConfigManager.validate reports the password error exactly when
\* adminPassword is missing or shorter than 6 characters, the sheet-URL error
\* exactly when sheetUrl is not empty and lacks the spreadsheet marker, the
\* web-app-URL error exactly when webAppUrl is not empty and lacks the script
\* marker, and the empty list exactly when no rule is violated.
C17_ValidateRules ==
    lastEvent.op = "ConfigManager.validate"
        => LET c == lastEvent.arg
               errors == Range(lastEvent.result)
               badPassword == c.adminPassword = NoValue \/ Len(c.adminPassword) < 6
               badSheet == /\ c.sheetUrl # <<>>
                           /\ ~HasWord(c.sheetUrl, "docs.google.com/spreadsheets")
               badWebApp == /\ c.webAppUrl # <<>>
                            /\ ~HasWord(c.webAppUrl, "script.google.com")
           IN  /\ PasswordTooShort \in errors <=> badPassword
               /\ BadSheetUrl \in errors <=> badSheet
               /\ BadWebAppUrl \in errors <=> badWebApp
               /\ lastEvent.result = <<>> <=> ~(badPassword \/ badSheet \/ badWebApp)

C17_Witness ==
    /\ lastEvent.op = "ConfigManager.validate"
    /\ Len(lastEvent.arg.adminPassword) = 5
    /\ HasWord(lastEvent.arg.sheetUrl, "docs.google.com/spreadsheets")
    /\ lastEvent.result = <<PasswordTooShort, BadWebAppUrl>>

\* the last n elements of q, all of q when it has fewer
LastOf(q, n) == SubSeq(q, (IF Len(q) > n THEN Len(q) - n + 1 ELSE 1), Len(q))
WasStored(call) == call.stored
Entries(calls) == [i \in DOMAIN calls |-> calls[i].entry]

\* C18 as claimed: the persisted error log holds at most 50 entries, and they
\* are the most recent of the entries logged since the log was last cleared,
\* in logging order.
C18_LogHoldsMostRecent ==
    /\ Len(errorLog) <= 50
    /\ errorLog = LastOf(Entries(logged), 50)

\* C18 as amended: the persisted error log holds at most 50 entries, and they
\* are the most recent of the entries logged since the log was last cleared
\* whose storage write succeeded, in logging order; an entry whose write
\* fails is not in the log.
C18_LogHoldsMostRecentWritten ==
    /\ Len(errorLog) <= 50
    /\ errorLog = LastOf(Entries(SelectSeq(logged, WasStored)), 50)

C18_Witness ==
    /\ lastEvent.op = "ErrorLogger.log"
    /\ Len(errorLog) = 50
    /\ Len(SelectSeq(logged, WasStored)) = 51
    /\ WriteFailures = 1

\* C19: in app.js every request of a gateway call goes to the web-app URL
\* that is stored when the call is made: after a save of a new URL, to the
\* new one.  (No handler both stores a configuration and calls the gateway.)
C19_ConfigReadPerCall ==
    (impl = "app" /\ lastEvent.reqs # <<>>)
        => \A i \in DOMAIN lastEvent.reqs :
                lastEvent.reqs[i].url = ConfigManager_get(configItem).webAppUrl

C19_Witness ==
    /\ impl = "app" /\ lastEvent.op = "loadTickets"
    /\ success = ConfigSaved
    /\ configItem # Stringify(StoredConfig)
    /\ Len(lastEvent.reqs) = 1 /\ lastEvent.reqs[1].url = ScriptUrl
    /\ tickets # <<>>

\* s[i..j] is a non-empty run of non-whitespace
NonSpaceRun(s, i, j) == i <= j /\ \A k \in i..j : ~IsSpace(s[k])
\* some part of s is: non-whitespace, '@', non-whitespace, '.', non-whitespace
MatchesEmailPattern(s) ==
    \E p, q \in DOMAIN s :
        /\ s[p] = "@" /\ s[q] = "."
        /\ 1 < p /\ q < Len(s)
        /\ NonSpaceRun(s, p - 1, p - 1)
        /\ NonSpaceRun(s, p + 1, q - 1)
        /\ NonSpaceRun(s, q + 1, q + 1)

\* what C20 says of title and description: reported exactly when empty or
\* whitespace-only, each for itself, with its message
TextRules(data, errors) ==
    /\ "title" \in DOMAIN errors <=> WhitespaceOnly(data.title)
    /\ "title" \in DOMAIN errors => errors.title = TitleRequired
    /\ "description" \in DOMAIN errors <=> WhitespaceOnly(data.description)
    /\ "description" \in DOMAIN errors => errors.description = DescriptionRequired
    /\ DOMAIN errors \subseteq {"title", "description", "email"}

\* C20 as claimed: validate reports every violated field in one pass; the
\* email message is 'Email is required' exactly when the email is empty and
\* 'Invalid email format' exactly when it is not empty and does not match.
C20_ValidateMessages ==
    (impl = "app" /\ lastEvent.op = "handleSubmit")
        => /\ TextRules(formData, validationErrors)
           /\ ("email" \in DOMAIN validationErrors /\ validationErrors.email = EmailRequired)
                <=> formData.email = EmptyStr
           /\ ("email" \in DOMAIN validationErrors /\ validationErrors.email = InvalidEmail)
                <=> (formData.email # EmptyStr /\ ~MatchesEmailPattern(formData.email))

\* C20 as amended: validate reports every violated field in one pass; the
\* email message is 'Email is required' exactly when the email is empty or
\* whitespace-only and 'Invalid email format' exactly when it is neither
\* and does not match.
C20_ValidateMessagesTrimmed ==
    (impl = "app" /\ lastEvent.op = "handleSubmit")
        => /\ TextRules(formData, validationErrors)
           /\ ("email" \in DOMAIN validationErrors /\ validationErrors.email = EmailRequired)
                <=> WhitespaceOnly(formData.email)
           /\ ("email" \in DOMAIN validationErrors /\ validationErrors.email = InvalidEmail)
                <=> (~WhitespaceOnly(formData.email) /\ ~MatchesEmailPattern(formData.email))

C20_Witness ==
    /\ impl = "app" /\ lastEvent.op = "handleSubmit"
    /\ formData.email # EmptyStr /\ WhitespaceOnly(formData.email)
    /\ DOMAIN validationErrors = {"title", "description", "email"}
    /\ validationErrors.email = EmailRequired

\* JS: obj[upper] || obj[lower], the lookup of either key
EitherKey(obj, upper, lower) ==
    IF Field(obj, upper) # Undefined THEN Field(obj, upper) ELSE Field(obj, lower)

\* C21: in app.js a ticket is read by the capitalized key first and the
\* lowercase key otherwise: under a status filter AdminView displays exactly
\* the tickets whose status under either key is the filter, and an update or a
\* delete requested from a card sends the id some ticket carries under either
\* key.
C21_EitherKeyInAdminView ==
    /\ (impl = "app" /\ view = "admin" /\ filter # "all")
        => filteredTickets(tickets, filter)
             = SelectSeq(tickets, LAMBDA t : EitherKey(t, "Status", "status") = filter)
    /\ (impl = "app" /\ lastEvent.op \in {"handleUpdateStatus", "handleDeleteTicket"})
        => \A i \in DOMAIN lastEvent.reqs :
              \E j \in DOMAIN tickets :
                  lastEvent.reqs[i].id = EitherKey(tickets[j], "ID", "id")

\* C22: in app.js the list a successful answer to loadTickets carries becomes
\* the ticket list whenever it is delivered, also when the answer to a list
\* request issued later was delivered before it.
C22_LastDeliveredListWins ==
    (impl = "app" /\ lastEvent.op = "settle:load" /\ lastEvent.resp = "success")
        => tickets = lastEvent.delivered

\* the answer to the older of two overlapping list requests arrived after the
\* answer to the newer one and its list is the ticket list
C22_Witness ==
    /\ impl = "app" /\ lastEvent.op = "settle:load" /\ lastEvent.resp = "success"
    /\ lastEvent.overtaken
    /\ lastEvent.delivered = <<TicketCap, TicketLow>>
    /\ tickets = <<TicketCap, TicketLow>>
    /\ inflight = <<>>

\* C23: in app.js loading is true in every state in which a gateway request is
\* in flight.
C23_LoadingWhileInFlight ==
    (impl = "app" /\ inflight # <<>>) => loading

\* C24: in app.js the ticket list is empty in every state in which isAdmin is
\* false.
C24_NoTicketsUnlessAdmin ==
    (impl = "app" /\ ~isAdmin) => tickets = <<>>

\* C25: in part_000 the refresh scheduled after a successful update or delete
\* leaves the displayed screen the one it was when it fires.
C25_TimerKeepsScreen ==
    [][(impl = "part000" /\ lastEvent'.op = "timer:refreshTickets")
          => screen' = screen]_vars

=============================================================================
